---- MODULE Spec2Model ----
(***************************************************************************)
(* Email-assistant: the JSON-file document store (src/src/database/        *)
(* email_db.py, class EmailDatabase) and the MIME decomposer               *)
(* (src/src/email/gmail_reader.py, class GmailReader).                     *)
(*                                                                         *)
(* Spec       the store: one EmailDatabase instance and its backing file,  *)
(*            whose writes can fail.                                       *)
(* SpecQuery  the store as its queries see it: three ids, three clock      *)
(*            values, every write successful.                              *)
(* SpecMime   the decomposer: a payload tree and the record extracted.     *)
(* SpecReopen the store over several runs: EmailDatabase constructed again *)
(*            on the file an earlier run left.                             *)
(* SpecPeer   two EmailDatabase instances on one file.                     *)
(***************************************************************************)
EXTENDS Integers, Sequences, FiniteSets, TLC

(***************************************************************************)
(* Bounds and input domains                                                *)
(***************************************************************************)
\* failed writes of the backing file in one run
MaxFailures == 1
\* largest explicit limit passed to a query
MaxLimit == 2
\* parts (leaves and nested containers) below the root of a payload
MaxNodes == 4
\* get_unprocessed_emails(self, limit: int = 10)
DefaultLimit == 10

\* provider message ids offered to the store (Spec) and to the query runs
\* (SpecQuery)
StoreIds == {"m1", "m2"}
QueryIds == {"m1", "m2", "m3"}
\* datetime.utcnow().isoformat() values, as their rank in string order; the
\* clock is read anew on every call and need not have advanced
Times == {1, 2}
QueryTimes == {1, 2, 3}
Limits == (0..MaxLimit) \cup {DefaultLimit}
\* the other fields of a decomposed record (here: its subject)
Subjects == {"s1", "s2"}
\* analysis payloads handed to mark_email_processed
Analyses == {"a1", "a2"}
\* Python's None
None == "None"
\* a key that the dict does not hold
Absent == <<>>
\* outcomes of the write in _save_database: written, open() failed (file as
\* it was), or the dump failed after open(..., 'w') truncated the file
WriteOutcomes == {"ok", "open_failed", "dump_failed"}

VARIABLES
    emails,     \* self.emails: the in-memory list of record dicts
    file,       \* the backing file self.db_file
    failures,   \* writes of the file that raised (and were swallowed) so far
    lastOp,     \* the latest call on the store: its name, argument, result
    issued,     \* per message id, what the insert that created it returned
    peer,       \* self.emails of a second EmailDatabase on the same file
    payload,    \* msg['payload'] handed to the decomposer
    email_data, \* the record _process_message built from it
    mpc         \* decomposer: "build" while the message is assembled, "done"

vars == <<emails, file, failures, lastOp, issued, peer, payload, email_data,
          mpc>>
mimeVars == <<payload, email_data, mpc>>
storeVars == <<emails, file, failures, lastOp, issued, peer>>

(***************************************************************************)
(* Generic helpers                                                         *)
(***************************************************************************)
Min(a, b) == IF a < b THEN a ELSE b

Range(s) == {s[i] : i \in 1..Len(s)}

\* [x for x in s if Test(x)]
RECURSIVE SelectSeqBy(_, _)
SelectSeqBy(s, keep) ==
    IF s = <<>> THEN <<>>
    ELSE IF keep[Head(s)] THEN <<Head(s)>> \o SelectSeqBy(Tail(s), keep)
         ELSE SelectSeqBy(Tail(s), keep)

(***************************************************************************)
(* The backing file                                                        *)
(***************************************************************************)
NoFile == [state |-> "missing", data |-> <<>>]
CorruptFile == [state |-> "corrupt", data |-> <<>>]

\* the code points of the texts of the model ("\\u2713 ok" stands for the
\* text whose first character is U+2713, as in urlsafe_b64decode_utf8)
Chars(text) ==
    CASE text = "m1" -> <<109, 49>>
      [] text = "m2" -> <<109, 50>>
      [] text = "m3" -> <<109, 51>>
      [] text = "s1" -> <<115, 49>>
      [] text = "s2" -> <<115, 50>>
      [] text = "\\u2713 ok" -> <<10003, 32, 111, 107>>
      [] text = "a\\b" -> <<97, 92, 98>>
      [] OTHER -> <<63>>

Texts == {"m1", "m2", "m3", "s1", "s2", "\\u2713 ok", "a\\b"}

\* the text with these code points ("?" when the model has no such text)
TextOf(chars) ==
    IF \E t \in Texts : Chars(t) = chars
    THEN CHOOSE t \in Texts : Chars(t) = chars
    ELSE "?"

\* a hexadecimal digit as json writes it (lower case) and its value
HexDigit(n) == IF n < 10 THEN 48 + n ELSE 87 + n
HexValue(c) == IF c <= 57 THEN c - 48 ELSE IF c >= 97 THEN c - 87 ELSE c - 55

\* json.dump of a str with ensure_ascii (the default): a quote and a
\* backslash get a backslash in front, a character outside ' '..'~'
\* becomes \uXXXX (no text of the model has a control character or a
\* character beyond U+FFFF)
RECURSIVE json_escape(_)
json_escape(chars) ==
    IF chars = <<>> THEN <<>>
    ELSE LET c == Head(chars)
         IN  (IF c = 34 \/ c = 92 THEN <<92, c>>
              ELSE IF c < 32 \/ c > 126
              THEN <<92, 117, HexDigit((c \div 4096) % 16),
                     HexDigit((c \div 256) % 16), HexDigit((c \div 16) % 16),
                     HexDigit(c % 16)>>
              ELSE <<c>>) \o json_escape(Tail(chars))

\* json.load of a str that leaves the escapes as they are in the file
json_unescape_Raw(chars) == chars

\* json.load of a str: the character behind a backslash, or the one a
\* \uXXXX names
RECURSIVE json_unescape(_)
json_unescape(chars) ==
    IF chars = <<>> THEN <<>>
    ELSE IF Head(chars) = 92
    THEN IF chars[2] = 117
         THEN <<HexValue(chars[3]) * 4096 + HexValue(chars[4]) * 256
                + HexValue(chars[5]) * 16 + HexValue(chars[6])>>
              \o json_unescape(SubSeq(chars, 7, Len(chars)))
         ELSE <<chars[2]>> \o json_unescape(SubSeq(chars, 3, Len(chars)))
    ELSE <<Head(chars)>> \o json_unescape(Tail(chars))

JsonNull == [type |-> "null"]
JsonObject(members) == [type |-> "object", members |-> members]

\* json.dump of one record: the strings escaped, False/True as false/true,
\* None as null, the analysis dict as an object, and 'processed_at' only
\* when the record has the key (db_id and created_at are a uuid and an ISO
\* time, which are plain ASCII and need no escape)
DumpRecord(e) ==
    LET base == [id |-> json_escape(Chars(e.id)),
                 subject |-> json_escape(Chars(e.subject)),
                 db_id |-> e.db_id,
                 created_at |-> e.created_at,
                 processed |-> IF e.processed THEN "true" ELSE "false",
                 ai_analysis |-> IF e.ai_analysis = None THEN JsonNull
                                 ELSE JsonObject(e.ai_analysis)]
    IN  IF e.processed_at = Absent THEN base
        ELSE [k \in DOMAIN base \cup {"processed_at"} |->
                 IF k = "processed_at" THEN e.processed_at[1] ELSE base[k]]

\* json.load of one record
LoadRecord(o) ==
    [id |-> TextOf(json_unescape(o.id)),
     subject |-> TextOf(json_unescape(o.subject)),
     db_id |-> o.db_id,
     created_at |-> o.created_at,
     processed |-> (o.processed = "true"),
     ai_analysis |-> IF o.ai_analysis = JsonNull THEN None
                     ELSE o.ai_analysis.members,
     processed_at |-> IF "processed_at" \in DOMAIN o THEN <<o.processed_at>>
                      ELSE Absent]

\* json.dump(self.emails, f, indent=2, default=str)
json_dump(es) == [i \in 1..Len(es) |-> DumpRecord(es[i])]

\* json.load(f)
json_load(data) == [i \in 1..Len(data) |-> LoadRecord(data[i])]

JsonFile(es) == [state |-> "json", data |-> json_dump(es)]

\* _load_database: the list in the file; [] when the file is missing or
\* json.load raises
_load_database(f) == IF f.state = "json" THEN json_load(f.data) ELSE <<>>

\* _save_database that keeps the records of the file whose id self.emails
\* does not have
_save_database_Merge(es, f, outcome) ==
    LET old == _load_database(f)
        ids == {es[i].id : i \in 1..Len(es)}
        kept == SelectSeqBy(old, [e \in Range(old) |-> e.id \notin ids])
    IN  CASE outcome = "ok" -> JsonFile(kept \o es)
          [] outcome = "open_failed" -> f
          [] outcome = "dump_failed" -> CorruptFile

\* _save_database: rewrite the whole file from self.emails; an exception is
\* printed and swallowed
_save_database(es, f, outcome) ==
    CASE outcome = "ok" -> JsonFile(es)
      [] outcome = "open_failed" -> f
      [] outcome = "dump_failed" -> CorruptFile

(***************************************************************************)
(* Records                                                                 *)
(***************************************************************************)
\* email_data as _process_message hands it to store_email
NewRecord(id, subject, db_id, now) ==
    [id |-> id, subject |-> subject, db_id |-> db_id, created_at |-> now,
     processed |-> FALSE, ai_analysis |-> None, processed_at |-> Absent]

\* next((email for email in self.emails if email['id'] == id), None), as the
\* index of the record, 0 for None
FindById(es, id) ==
    IF \E i \in 1..Len(es) : es[i].id = id
    THEN CHOOSE i \in 1..Len(es) :
            /\ es[i].id = id
            /\ \A j \in 1..(i - 1) : es[j].id # id
    ELSE 0

\* str(uuid.uuid4()): a value that no record and no earlier call carries
FreshUuid(es, f, given) ==
    LET used == {es[i].db_id : i \in 1..Len(es)}
                \cup {f.data[i].db_id : i \in 1..Len(f.data)}
                \cup {given[m] : m \in DOMAIN given}
    IN  CHOOSE u \in 1..(Cardinality(used) + 1) : u \notin used

(***************************************************************************)
(* EmailDatabase: the pure part of each method                             *)
(***************************************************************************)
\* store_email that overwrites the stored record on a repeated id
StoreEmailList_Upsert(es, id, subject, db_id, now) ==
    IF FindById(es, id) # 0
    THEN [es EXCEPT ![FindById(es, id)] = NewRecord(id, subject, db_id, now)]
    ELSE Append(es, NewRecord(id, subject, db_id, now))

\* store_email without the lookup of an existing record
StoreEmailList_AlwaysAppend(es, id, subject, db_id, now) ==
    Append(es, NewRecord(id, subject, db_id, now))

\* store_email, the list it leaves in self.emails: untouched when a record
\* with this id exists, else the record appended with its store fields
StoreEmailList(es, id, subject, db_id, now) ==
    IF FindById(es, id) # 0
    THEN es
    ELSE Append(es, NewRecord(id, subject, db_id, now))

\* store_email, the value it returns: existing_email.get('db_id', ...) or the
\* db_id just assigned
StoreEmailRet(es, id, db_id) ==
    IF FindById(es, id) # 0 THEN es[FindById(es, id)].db_id ELSE db_id

\* mark_email_processed that forgets to stamp processed_at
MarkList_NoStamp(es, id, analysis, now) ==
    LET i == FindById(es, id)
    IN  IF i = 0 THEN es
        ELSE [es EXCEPT ![i] = [@ EXCEPT !.processed = TRUE,
                                         !.ai_analysis = analysis]]

\* mark_email_processed that also renews created_at
MarkList_Restamp(es, id, analysis, now) ==
    LET i == FindById(es, id)
    IN  IF i = 0 THEN es
        ELSE [es EXCEPT ![i] = [@ EXCEPT !.processed = TRUE,
                                         !.ai_analysis = analysis,
                                         !.processed_at = <<now>>,
                                         !.created_at = now]]

\* mark_email_processed that keeps the analysis and the time of the first
\* marking when the record is processed already
MarkList_KeepFirst(es, id, analysis, now) ==
    LET i == FindById(es, id)
    IN  IF i = 0 \/ es[i].processed THEN es
        ELSE [es EXCEPT ![i] = [@ EXCEPT !.processed = TRUE,
                                         !.ai_analysis = analysis,
                                         !.processed_at = <<now>>]]

\* mark_email_processed, the list it leaves: the first record with this id
\* gets processed, ai_analysis and processed_at set
MarkList(es, id, analysis, now) ==
    LET i == FindById(es, id)
    IN  IF i = 0 THEN es
        ELSE [es EXCEPT ![i] = [@ EXCEPT !.processed = TRUE,
                                         !.ai_analysis = analysis,
                                         !.processed_at = <<now>>]]

\* mark_email_processed that returns True whether or not the id was found
MarkRet_AlwaysTrue(es, id) == TRUE

\* mark_email_processed, the value it returns
MarkRet(es, id) == FindById(es, id) # 0

\* not email.get('processed', False)
IsUnprocessed(e) == ~e.processed

\* the sort without reverse=True: x goes behind every record whose key is
\* smaller or equal
RECURSIVE InsertDesc_Ascending(_, _)
InsertDesc_Ascending(sorted, x) ==
    IF sorted = <<>> THEN <<x>>
    ELSE IF Head(sorted).created_at <= x.created_at
         THEN <<Head(sorted)>> \o InsertDesc_Ascending(Tail(sorted), x)
         ELSE <<x>> \o sorted

\* list.sort(key=created_at, reverse=True): stable, so records with equal
\* keys keep the order they had; x goes behind every record whose key is
\* greater or equal
RECURSIVE InsertDesc(_, _)
InsertDesc(sorted, x) ==
    IF sorted = <<>> THEN <<x>>
    ELSE IF Head(sorted).created_at >= x.created_at
         THEN <<Head(sorted)>> \o InsertDesc(Tail(sorted), x)
         ELSE <<x>> \o sorted

RECURSIVE SortDesc(_)
SortDesc(s) ==
    IF s = <<>> THEN <<>>
    ELSE InsertDesc(SortDesc(SubSeq(s, 1, Len(s) - 1)), s[Len(s)])

\* s[:limit] for limit >= 0
SlicePrefix(s, limit) == SubSeq(s, 1, Min(limit, Len(s)))

\* get_unprocessed_emails
get_unprocessed_emails(es, limit) ==
    LET unprocessed == SelectSeqBy(es, [e \in Range(es) |-> IsUnprocessed(e)])
    IN  SlicePrefix(SortDesc(unprocessed), limit)

\* the processed count taken over every record that has a 'processed' key
ProcessedCount_HasKey(es) == Len(es)

\* get_database_stats: the three counts (the sender and date aggregates are
\* computed from fields the store never writes and are left out)
ProcessedCount(es) ==
    Len(SelectSeqBy(es, [e \in Range(es) |-> e.processed]))

get_database_stats(es) ==
    LET total_emails == Len(es)
        processed_emails == ProcessedCount(es)
    IN  [total_emails |-> total_emails,
         processed_emails |-> processed_emails,
         unprocessed_emails |-> total_emails - processed_emails]

(***************************************************************************)
(* EmailDatabase: the operations                                           *)
(***************************************************************************)
\* a call as the caller sees it: the method, its arguments, the value
\* returned, the clock value read (None when utcnow() was not called) and
\* what became of the file write ("none" when no write was attempted)
Call(op, arg, ret, now, saved) ==
    [op |-> op, arg |-> arg, ret |-> ret, now |-> now, saved |-> saved]

Failed(outcome) == IF outcome = "ok" THEN 0 ELSE 1

\* EmailDatabase(): no file yet, so _load_database returns []; the
\* application constructs a second instance next to the reader's
StoreInit ==
    /\ file = NoFile
    /\ emails = _load_database(NoFile)
    /\ peer = _load_database(NoFile)
    /\ failures = 0
    /\ lastOp = Call("__init__", None, None, None, "none")
    /\ issued = << >>

\* store_email that saves before it appends
store_email_SaveFirst(id, subject, now, outcome) ==
    LET db_id == FreshUuid(emails \o peer, file, issued)
        exists == FindById(emails, id) # 0
        ret == StoreEmailRet(emails, id, db_id)
    IN  /\ emails' = StoreEmailList(emails, id, subject, db_id, now)
        /\ file' = IF exists THEN file ELSE _save_database(emails, file, outcome)
        /\ failures' = IF exists THEN failures ELSE failures + Failed(outcome)
        /\ lastOp' = Call("store_email", [id |-> id, subject |-> subject], ret,
                          IF exists THEN None ELSE now,
                          IF exists THEN "none" ELSE outcome)
        /\ issued' = IF id \in DOMAIN issued THEN issued ELSE (id :> ret) @@ issued
        /\ UNCHANGED <<peer, mimeVars>>

\* store_email that takes the record back out when the write fails
store_email_Rollback(id, subject, now, outcome) ==
    LET db_id == FreshUuid(emails \o peer, file, issued)
        exists == FindById(emails, id) # 0
        ret == StoreEmailRet(emails, id, db_id)
        appended == StoreEmailList(emails, id, subject, db_id, now)
    IN  /\ emails' = IF outcome = "ok" THEN appended ELSE emails
        /\ file' = IF exists THEN file ELSE _save_database(appended, file, outcome)
        /\ failures' = IF exists THEN failures ELSE failures + Failed(outcome)
        /\ lastOp' = Call("store_email", [id |-> id, subject |-> subject], ret,
                          IF exists THEN None ELSE now,
                          IF exists THEN "none" ELSE outcome)
        /\ issued' = IF id \in DOMAIN issued THEN issued ELSE (id :> ret) @@ issued
        /\ UNCHANGED <<peer, mimeVars>>

store_email(id, subject, now, outcome) ==
    LET db_id == FreshUuid(emails \o peer, file, issued)
        exists == FindById(emails, id) # 0
        ret == StoreEmailRet(emails, id, db_id)
    IN  /\ emails' = StoreEmailList(emails, id, subject, db_id, now)
        /\ file' = IF exists THEN file ELSE _save_database(emails', file, outcome)
        /\ failures' = IF exists THEN failures ELSE failures + Failed(outcome)
        /\ lastOp' = Call("store_email", [id |-> id, subject |-> subject], ret,
                          IF exists THEN None ELSE now,
                          IF exists THEN "none" ELSE outcome)
        /\ issued' = IF id \in DOMAIN issued THEN issued ELSE (id :> ret) @@ issued
        /\ UNCHANGED <<peer, mimeVars>>

mark_email_processed(id, analysis, now, outcome) ==
    LET found == MarkRet(emails, id)
    IN  /\ emails' = MarkList(emails, id, analysis, now)
        /\ file' = IF found THEN _save_database(emails', file, outcome) ELSE file
        /\ failures' = IF found THEN failures + Failed(outcome) ELSE failures
        /\ lastOp' = Call("mark_email_processed",
                          [id |-> id, ai_analysis |-> analysis], found,
                          IF found THEN now ELSE None,
                          IF found THEN outcome ELSE "none")
        /\ UNCHANGED <<issued, peer, mimeVars>>

GetUnprocessed(limit) ==
    /\ lastOp' = Call("get_unprocessed_emails", limit,
                      get_unprocessed_emails(emails, limit), None, "none")
    /\ UNCHANGED <<emails, file, failures, issued, peer, mimeVars>>

GetStats ==
    /\ lastOp' = Call("get_database_stats", None, get_database_stats(emails),
                      None, "none")
    /\ UNCHANGED <<emails, file, failures, issued, peer, mimeVars>>

close_connection(outcome) ==
    /\ file' = _save_database(emails, file, outcome)
    /\ failures' = failures + Failed(outcome)
    /\ lastOp' = Call("close_connection", None, None, None, outcome)
    /\ UNCHANGED <<emails, issued, peer, mimeVars>>

\* EmailDatabase() once more on the same file, as the next run of the
\* program does: self.emails is what _load_database reads
Reopen ==
    /\ emails' = _load_database(file)
    /\ lastOp' = Call("__init__", None, None, None, "none")
    /\ UNCHANGED <<file, failures, issued, peer, mimeVars>>

\* the second instance: the same methods on its own self.emails
peer_store_email(id, subject, now, outcome) ==
    LET db_id == FreshUuid(emails \o peer, file, issued)
        exists == FindById(peer, id) # 0
        ret == StoreEmailRet(peer, id, db_id)
    IN  /\ peer' = StoreEmailList(peer, id, subject, db_id, now)
        /\ file' = IF exists THEN file ELSE _save_database(peer', file, outcome)
        /\ failures' = IF exists THEN failures ELSE failures + Failed(outcome)
        /\ lastOp' = Call("peer.store_email", [id |-> id, subject |-> subject],
                          ret, IF exists THEN None ELSE now,
                          IF exists THEN "none" ELSE outcome)
        /\ UNCHANGED <<emails, issued, mimeVars>>

peer_close_connection(outcome) ==
    /\ file' = _save_database(peer, file, outcome)
    /\ failures' = failures + Failed(outcome)
    /\ lastOp' = Call("peer.close_connection", None, None, None, outcome)
    /\ UNCHANGED <<emails, issued, peer, mimeVars>>

\* the second instance constructed anew: it loads what the file holds now
peer_init ==
    /\ peer' = _load_database(file)
    /\ lastOp' = Call("peer.__init__", None, None, None, "none")
    /\ UNCHANGED <<emails, file, failures, issued, mimeVars>>

NoPayload == [mimeType |-> "none"]

MimeIdle ==
    /\ payload = NoPayload
    /\ email_data = None
    /\ mpc = "idle"

\* the write outcomes still possible: a write can fail while fewer than
\* MaxFailures writes have failed
Outcomes == {w \in WriteOutcomes : w = "ok" \/ failures < MaxFailures}

Init == StoreInit /\ MimeIdle

Next ==
    \/ \E id \in StoreIds, s \in Subjects, t \in Times, w \in Outcomes :
            store_email(id, s, t, w)
    \/ \E id \in StoreIds, a \in Analyses, t \in Times, w \in Outcomes :
            mark_email_processed(id, a, t, w)
    \/ \E limit \in Limits : GetUnprocessed(limit)
    \/ GetStats
    \/ \E w \in Outcomes : close_connection(w)

\* the store with its file writes able to fail
Spec == Init /\ [][Next]_vars

\* the store as the queries see it: what they return depends on self.emails
\* alone, which no write outcome, subject or analysis value influences
NextQuery ==
    \/ \E id \in QueryIds, t \in QueryTimes : store_email(id, "s1", t, "ok")
    \/ \E id \in QueryIds, t \in QueryTimes :
            mark_email_processed(id, "a1", t, "ok")
    \/ \E limit \in Limits : GetUnprocessed(limit)
    \/ GetStats

SpecQuery == Init /\ [][NextQuery]_vars

\* subjects with a character json escapes: U+2713 and a backslash
ReopenSubjects == {"\\u2713 ok", "a\\b"}

\* the store over several runs of the program on one file
NextReopen ==
    \/ \E id \in StoreIds, s \in ReopenSubjects, t \in Times, w \in Outcomes :
            store_email(id, s, t, w)
    \/ \E id \in StoreIds, t \in Times, w \in Outcomes :
            mark_email_processed(id, "a1", t, w)
    \/ \E w \in Outcomes : close_connection(w)
    \/ Reopen

SpecReopen == Init /\ [][NextReopen]_vars

\* two instances on one file, as the application and its reader hold them;
\* every write succeeds
NextPeer ==
    \/ \E id \in StoreIds, t \in Times : store_email(id, "s1", t, "ok")
    \/ \E id \in StoreIds, t \in Times :
            mark_email_processed(id, "a1", t, "ok")
    \/ close_connection("ok")
    \/ \E id \in StoreIds, t \in Times : peer_store_email(id, "s1", t, "ok")
    \/ peer_close_connection("ok")
    \/ peer_init

SpecPeer == Init /\ [][NextPeer]_vars

(***************************************************************************)
(* GmailReader: the MIME decomposer                                        *)
(***************************************************************************)
\* a leaf part: a MIME type, a filename ("" when it declares none) and
\* body.data, the inline base64url text ("" when the body carries none,
\* as for an attachment that is only referenced by attachmentId)
Leaf(mime, filename, data) ==
    [mimeType |-> mime, filename |-> filename, body |-> [data |-> data]]

\* a multipart container
Container(parts) == [mimeType |-> "multipart/mixed", parts |-> parts]

\* 'parts' in part
HasParts(part) == "parts" \in DOMAIN part

\* the leaves a provider message is assembled from
LeafSet ==
    { Leaf("text/plain", "", "aGk="),
      Leaf("text/plain", "", "Ynll"),
      Leaf("text/plain", "", "_w=="),
      Leaf("text/html", "", "PHA-aGk8L3A-"),
      Leaf("image/png", "a.png", ""),
      Leaf("application/pdf", "b.pdf", ""),
      Leaf("text/plain", "c.txt", "4pyTIG9r"),
      Leaf("text/html", "", "") }

\* base64.urlsafe_b64decode(data).decode('utf-8'): the text, or ok = FALSE
\* when either step raises ("_w==" is the byte 0xFF, which is not UTF-8)
urlsafe_b64decode_utf8(data) ==
    CASE data = "aGk=" -> [ok |-> TRUE, text |-> "hi"]
      [] data = "Ynll" -> [ok |-> TRUE, text |-> "bye"]
      [] data = "PHA-aGk8L3A-" -> [ok |-> TRUE, text |-> "<p>hi</p>"]
      [] data = "4pyTIG9r" -> [ok |-> TRUE, text |-> "\\u2713 ok"]
      [] OTHER -> [ok |-> FALSE, text |-> ""]

EmptyBody == [text |-> "", html |-> ""]

\* the leaf step decoding with errors='replace': a leaf whose data is not
\* valid UTF-8 yields replacement characters instead of being skipped
ExtractLeaf_ReplaceErrors(body_data, part) ==
    LET decoded == urlsafe_b64decode_utf8(part.body.data)
        text == IF decoded.ok THEN decoded.text ELSE "\\ufffd"
    IN  IF part.mimeType = "text/plain" /\ body_data.text = ""
        THEN [body_data EXCEPT !.text = text]
        ELSE IF part.mimeType = "text/html" /\ body_data.html = ""
        THEN [body_data EXCEPT !.html = text]
        ELSE body_data

\* the leaf step without the "slot still empty" test: last found wins
ExtractLeaf_LastWins(body_data, part) ==
    LET decoded == urlsafe_b64decode_utf8(part.body.data)
    IN  IF ~decoded.ok THEN body_data
        ELSE IF part.mimeType = "text/plain"
             THEN [body_data EXCEPT !.text = decoded.text]
        ELSE IF part.mimeType = "text/html"
             THEN [body_data EXCEPT !.html = decoded.text]
        ELSE body_data

\* _extract_from_parts, one leaf with inline data: the decoded text goes to
\* the slot of its MIME type if that slot is still empty; a decoding error
\* is caught and the leaf skipped
ExtractLeaf(body_data, part) ==
    LET decoded == urlsafe_b64decode_utf8(part.body.data)
    IN  IF ~decoded.ok THEN body_data
        ELSE IF part.mimeType = "text/plain" /\ body_data.text = ""
             THEN [body_data EXCEPT !.text = decoded.text]
        ELSE IF part.mimeType = "text/html" /\ body_data.html = ""
             THEN [body_data EXCEPT !.html = decoded.text]
        ELSE body_data

\* _extract_from_parts, the merge of a nested container's result
MergeNested(body_data, nested_body) ==
    [text |-> IF body_data.text = "" /\ nested_body.text # ""
              THEN nested_body.text ELSE body_data.text,
     html |-> IF body_data.html = "" /\ nested_body.html # ""
              THEN nested_body.html ELSE body_data.html]

\* _extract_from_parts: the loop over parts[i..], body_data so far
RECURSIVE ExtractLoop(_, _, _)
ExtractLoop(parts, i, body_data) ==
    IF i > Len(parts) THEN body_data
    ELSE LET part == parts[i]
         IN  IF HasParts(part)
             THEN ExtractLoop(parts, i + 1,
                     MergeNested(body_data, ExtractLoop(part.parts, 1, EmptyBody)))
             ELSE IF part.body.data # ""
             THEN ExtractLoop(parts, i + 1, ExtractLeaf(body_data, part))
             ELSE ExtractLoop(parts, i + 1, body_data)

_extract_from_parts(parts) == ExtractLoop(parts, 1, EmptyBody)

\* _extract_body: a multipart payload is walked; a payload that is one leaf
\* is decoded in place, and any exception leaves both slots empty
_extract_body(pl) ==
    IF HasParts(pl) THEN _extract_from_parts(pl.parts)
    ELSE IF pl.body.data # ""
    THEN LET decoded == urlsafe_b64decode_utf8(pl.body.data)
         IN  IF ~decoded.ok THEN EmptyBody
             ELSE IF pl.mimeType = "text/plain"
                  THEN [EmptyBody EXCEPT !.text = decoded.text]
             ELSE IF pl.mimeType = "text/html"
                  THEN [EmptyBody EXCEPT !.html = decoded.text]
             ELSE EmptyBody
    ELSE EmptyBody

\* the descriptor _extract_attachments keeps of a leaf (size and
\* attachment_id are copied from the body alike and are left out)
AttachmentInfo(part) == [filename |-> part.filename, mime_type |-> part.mimeType]

\* process_parts that takes the leaves of a level before its containers
RECURSIVE process_parts_LeavesFirst(_)
process_parts_LeavesFirst(parts) ==
    LET RECURSIVE LeavesOf(_)
        LeavesOf(ps) ==
            IF ps = <<>> THEN <<>>
            ELSE (IF ~HasParts(Head(ps)) /\ Head(ps).filename # ""
                  THEN <<[filename |-> Head(ps).filename,
                          mime_type |-> Head(ps).mimeType]>>
                  ELSE <<>>) \o LeavesOf(Tail(ps))
        RECURSIVE NestedOf(_)
        NestedOf(ps) ==
            IF ps = <<>> THEN <<>>
            ELSE (IF HasParts(Head(ps))
                  THEN process_parts_LeavesFirst(Head(ps).parts)
                  ELSE <<>>) \o NestedOf(Tail(ps))
    IN  LeavesOf(parts) \o NestedOf(parts)

\* _extract_attachments.process_parts: the descriptors appended while
\* walking parts
RECURSIVE process_parts(_)
process_parts(parts) ==
    IF parts = <<>> THEN <<>>
    ELSE LET part == Head(parts)
         IN  (IF HasParts(part) THEN process_parts(part.parts)
              ELSE IF part.filename # "" THEN <<AttachmentInfo(part)>>
              ELSE <<>>)
             \o process_parts(Tail(parts))

\* _extract_attachments
_extract_attachments(pl) ==
    IF HasParts(pl) THEN process_parts(pl.parts) ELSE <<>>

\* _process_message: the body and attachment fields of the record
_process_message(pl) ==
    [body_text |-> _extract_body(pl).text,
     body_html |-> _extract_body(pl).html,
     attachments |-> _extract_attachments(pl)]

\* parts below a list of parts, nested ones included
RECURSIVE NodeCount(_)
NodeCount(parts) ==
    IF parts = <<>> THEN 0
    ELSE 1 + (IF HasParts(Head(parts)) THEN NodeCount(Head(parts).parts) ELSE 0)
           + NodeCount(Tail(parts))

\* the message the provider returns: a single leaf, or a multipart payload
\* whose parts are given one by one (AddPart) and grouped (NestParts)
MimeInit ==
    /\ payload \in LeafSet \cup {Container(<<>>)}
    /\ email_data = None
    /\ mpc = "build"
    /\ StoreInit

AddPart(leaf) ==
    /\ mpc = "build"
    /\ HasParts(payload)
    /\ NodeCount(payload.parts) < MaxNodes
    /\ payload' = [payload EXCEPT !.parts = Append(@, leaf)]
    /\ UNCHANGED <<email_data, mpc, storeVars>>

\* the last k parts become the parts of one nested container
NestParts(k) ==
    /\ mpc = "build"
    /\ HasParts(payload)
    /\ NodeCount(payload.parts) < MaxNodes
    /\ k <= Len(payload.parts)
    /\ LET n == Len(payload.parts)
       IN  payload' = [payload EXCEPT !.parts =
                Append(SubSeq(@, 1, n - k), Container(SubSeq(@, n - k + 1, n)))]
    /\ UNCHANGED <<email_data, mpc, storeVars>>

ProcessMessage ==
    /\ mpc = "build"
    /\ email_data' = _process_message(payload)
    /\ mpc' = "done"
    /\ UNCHANGED <<payload, storeVars>>

NextMime ==
    \/ \E leaf \in LeafSet : AddPart(leaf)
    \/ \E k \in 0..MaxNodes : NestParts(k)
    \/ ProcessMessage

\* the decomposer applied to every payload of at most MaxNodes parts
SpecMime == MimeInit /\ [][NextMime]_vars

(***************************************************************************)
(* Properties                                                              *)
(***************************************************************************)
Indices(s) == 1..Len(s)

\* how often x occurs in s
Count(s, x) == Cardinality({i \in Indices(s) : s[i] = x})

\* whether the backing file holds the record e
RecordInFile(e) ==
    \E i \in Indices(_load_database(file)) : _load_database(file)[i] = e

\* whether the latest call was a store_email that created a record
InsertedNew == lastOp.op = "store_email" /\ lastOp.saved # "none"

\* whether the latest call was a store_email that found its id stored
InsertedDuplicate == lastOp.op = "store_email" /\ lastOp.saved = "none"

\* C1: a store_email whose id is already stored returns the db_id that the
\* first insert of that id returned and leaves self.emails exactly as it
\* was, whatever the other fields of the record passed in.
C1_DuplicateInsertNoOp ==
    [][ (lastOp'.op = "store_email" /\ FindById(emails, lastOp'.arg.id) # 0)
        => /\ emails' = emails
           /\ lastOp'.ret = issued[lastOp'.arg.id] ]_vars

\* a duplicate insert whose subject differs from the stored one, of a record
\* that has been processed in between
C1_Witness ==
    /\ InsertedDuplicate
    /\ LET e == emails[FindById(emails, lastOp.arg.id)]
       IN  /\ e.subject # lastOp.arg.subject
           /\ e.processed
           /\ e.db_id = lastOp.ret

\* C2: no two records of the collection have the same id.
C2_IdUnique ==
    \A i, j \in Indices(emails) : i # j => emails[i].id # emails[j].id

\* a repeated id was offered to a store that holds two records
C2_Witness == InsertedDuplicate /\ Len(emails) = 2 /\ failures = 1

\* C3: a record is processed exactly when it has a processed_at, and the
\* record an insert has just created is unprocessed, without analysis and
\* without processed_at.
C3_ProcessedInvariant ==
    /\ \A i \in Indices(emails) :
          emails[i].processed <=> emails[i].processed_at # Absent
    /\ InsertedNew =>
          LET e == emails[Len(emails)]
          IN  /\ e.id = lastOp.arg.id
              /\ e.processed = FALSE
              /\ e.ai_analysis = None
              /\ e.processed_at = Absent

\* a record is inserted into a store that holds a processed one
C3_Witness ==
    /\ InsertedNew
    /\ \E i \in Indices(emails) :
          emails[i].processed /\ emails[i].processed_at # Absent

\* C4 as stated: every insert that returned an id for a new record is in
\* the backing file at that moment, failed writes included.
C4_AckImpliesOnDisk ==
    InsertedNew => RecordInFile(emails[Len(emails)])

\* C4 as amended: store_email writes the file before it returns; the new
\* record is in the file when that write succeeded, and when the write
\* failed the id is returned all the same with the record in memory only.
C4_AckImpliesOnDiskIfWritten ==
    InsertedNew =>
        /\ emails[Len(emails)].db_id = lastOp.ret
        /\ lastOp.saved = "ok" => RecordInFile(emails[Len(emails)])
        /\ lastOp.saved = "ok" => file = JsonFile(emails)

\* a second record is inserted and written after an earlier write failed
C4_Witness ==
    /\ InsertedNew
    /\ lastOp.saved = "ok"
    /\ failures = 1
    /\ Len(emails) = 2
    /\ RecordInFile(emails[2])

\* C5: mark_email_processed on a stored id sets processed, the analysis and
\* processed_at on that record and returns true; on an id that is not
\* stored it returns false and changes neither self.emails nor the file.
C5_MarkProcessed ==
    [][ lastOp'.op = "mark_email_processed"
        => LET i == FindById(emails, lastOp'.arg.id)
           IN  IF i # 0
               THEN /\ lastOp'.ret = TRUE
                    /\ Len(emails') = Len(emails)
                    /\ emails'[i].id = lastOp'.arg.id
                    /\ emails'[i].processed = TRUE
                    /\ emails'[i].ai_analysis = lastOp'.arg.ai_analysis
                    /\ emails'[i].processed_at = <<lastOp'.now>>
               ELSE /\ lastOp'.ret = FALSE
                    /\ emails' = emails
                    /\ file' = file ]_vars

\* an id that is not stored is marked while the store and its file hold
\* another record, itself marked before
C5_Witness ==
    /\ lastOp.op = "mark_email_processed"
    /\ lastOp.ret = FALSE
    /\ Len(emails) = 1
    /\ emails[1].processed
    /\ emails[1].ai_analysis \in Analyses
    /\ file = JsonFile(emails)

\* C6: get_unprocessed_emails(limit) returns unprocessed records only, each
\* once, newest created_at first, min(limit, number of unprocessed records)
\* of them, and none it leaves out is newer than one it returns.
C6_UnprocessedQuery ==
    lastOp.op = "get_unprocessed_emails" =>
        LET r == lastOp.ret
            limit == lastOp.arg
            U == {e \in Range(emails) : e.processed = FALSE}
        IN  /\ Len(r) = Min(limit, Cardinality(U))
            /\ \A k \in Indices(r) : r[k] \in U
            /\ \A k, l \in Indices(r) : k # l => r[k] # r[l]
            /\ \A k, l \in Indices(r) : k < l => r[k].created_at >= r[l].created_at
            /\ \A e \in U \ Range(r) :
                  \A k \in Indices(r) : r[k].created_at >= e.created_at

\* three records, exactly one marked, queried with limit 10: the other two
\* come back, the later-created first although it was inserted first
C6_Witness ==
    /\ lastOp.op = "get_unprocessed_emails"
    /\ lastOp.arg = DefaultLimit
    /\ Len(emails) = 3
    /\ Cardinality({i \in Indices(emails) : emails[i].processed}) = 1
    /\ Len(lastOp.ret) = 2
    /\ \A k \in Indices(lastOp.ret) : lastOp.ret[k].processed = FALSE
    /\ lastOp.ret[1].created_at > lastOp.ret[2].created_at
    /\ FindById(emails, lastOp.ret[1].id) < FindById(emails, lastOp.ret[2].id)

\* C7: get_database_stats reports the number of records as total_emails,
\* the number of processed records as processed_emails, the length of the
\* unlimited unprocessed query as unprocessed_emails, and the first is the
\* sum of the other two.
C7_StatsConsistent ==
    lastOp.op = "get_database_stats" =>
        LET st == lastOp.ret
        IN  /\ st.total_emails = st.processed_emails + st.unprocessed_emails
            /\ st.total_emails = Len(emails)
            /\ st.processed_emails =
                  Cardinality({i \in Indices(emails) : emails[i].processed})
            /\ st.unprocessed_emails =
                  Len(get_unprocessed_emails(emails, Len(emails)))

\* statistics taken of a store with processed and unprocessed records
C7_Witness ==
    /\ lastOp.op = "get_database_stats"
    /\ lastOp.ret.processed_emails = 1
    /\ lastOp.ret.unprocessed_emails = 2

\* the leaves below a list of parts, depth first, each container walked
\* completely before its next sibling
RECURSIVE PreorderLeaves(_)
PreorderLeaves(parts) ==
    IF parts = <<>> THEN <<>>
    ELSE (IF HasParts(Head(parts)) THEN PreorderLeaves(Head(parts).parts)
          ELSE <<Head(parts)>>) \o PreorderLeaves(Tail(parts))

\* the leaves of a payload, which may itself be one leaf
PayloadLeaves(pl) == IF HasParts(pl) THEN PreorderLeaves(pl.parts) ELSE <<pl>>

\* a leaf of the given MIME type whose inline data decodes
Decodable(leaf, mime) ==
    /\ leaf.mimeType = mime
    /\ leaf.body.data # ""
    /\ urlsafe_b64decode_utf8(leaf.body.data).ok

\* the decoded content of the first decodable leaf of the type, "" if none
FirstDecoded(leaves, mime) ==
    IF \E i \in Indices(leaves) : Decodable(leaves[i], mime)
    THEN LET first == CHOOSE i \in Indices(leaves) :
                        /\ Decodable(leaves[i], mime)
                        /\ \A j \in 1..(i - 1) : ~Decodable(leaves[j], mime)
         IN  urlsafe_b64decode_utf8(leaves[first].body.data).text
    ELSE ""

\* C8: the text (html) body is the decoded content of the first decodable
\* text/plain (text/html) leaf of the payload in depth-first pre-order.
C8_FirstFoundWins ==
    mpc = "done" =>
        /\ email_data.body_text = FirstDecoded(PayloadLeaves(payload), "text/plain")
        /\ email_data.body_html = FirstDecoded(PayloadLeaves(payload), "text/html")

\* two sibling text/plain leaves that both decode, to different texts,
\* behind a nested container that supplied nothing
C8_Witness ==
    /\ mpc = "done"
    /\ HasParts(payload)
    /\ Len(payload.parts) = 3
    /\ HasParts(payload.parts[1])
    /\ ~HasParts(payload.parts[2]) /\ Decodable(payload.parts[2], "text/plain")
    /\ ~HasParts(payload.parts[3]) /\ Decodable(payload.parts[3], "text/plain")
    /\ payload.parts[2].body.data # payload.parts[3].body.data
    /\ email_data.body_text = urlsafe_b64decode_utf8(payload.parts[2].body.data).text

\* the descriptors of the leaves that declare a filename, in pre-order
NamedLeaves(pl) ==
    LET leaves == PayloadLeaves(pl)
        named == SelectSeqBy(leaves, [l \in Range(leaves) |-> l.filename # ""])
    IN  [i \in Indices(named) |-> AttachmentInfo(named[i])]

\* C9: every leaf of the payload that declares a filename is in the
\* attachment list exactly once, and nothing else is, whether the payload
\* is a multipart container or a single leaf.
C9_EveryNamedLeafCollected ==
    mpc = "done" =>
        /\ Len(email_data.attachments) = Len(NamedLeaves(payload))
        /\ \A i \in Indices(NamedLeaves(payload)) :
              Count(email_data.attachments, NamedLeaves(payload)[i])
                = Count(NamedLeaves(payload), NamedLeaves(payload)[i])

\* whether s can be obtained from t by leaving elements out
RECURSIVE IsSubsequence(_, _)
IsSubsequence(s, t) ==
    IF s = <<>> THEN TRUE
    ELSE IF t = <<>> THEN FALSE
    ELSE IF Head(s) = Head(t) THEN IsSubsequence(Tail(s), Tail(t))
    ELSE IsSubsequence(s, Tail(t))

\* C10: the attachment list is in depth-first pre-order of the part tree:
\* its entries follow one another as their leaves do in the pre-order walk.
C10_AttachmentsInPreorder ==
    mpc = "done" => IsSubsequence(email_data.attachments, NamedLeaves(payload))

\* a.png, then a nested container holding b.pdf, then c.txt
C10_Witness ==
    /\ mpc = "done"
    /\ HasParts(payload)
    /\ Len(payload.parts) = 3
    /\ ~HasParts(payload.parts[1]) /\ payload.parts[1].filename = "a.png"
    /\ HasParts(payload.parts[2])
    /\ Len(payload.parts[2].parts) = 1
    /\ ~HasParts(payload.parts[2].parts[1])
    /\ payload.parts[2].parts[1].filename = "b.pdf"
    /\ ~HasParts(payload.parts[3]) /\ payload.parts[3].filename = "c.txt"
    /\ [i \in Indices(email_data.attachments) |-> email_data.attachments[i].filename]
         = <<"a.png", "b.pdf", "c.txt">>

\* whether decoding the inline data of a leaf raises
DecodeFails(part) ==
    /\ ~HasParts(part)
    /\ part.body.data # ""
    /\ ~urlsafe_b64decode_utf8(part.body.data).ok

\* the parts without the leaves whose decoding raises, at every depth
RECURSIVE WithoutFailing(_)
WithoutFailing(parts) ==
    IF parts = <<>> THEN <<>>
    ELSE LET part == Head(parts)
         IN  (IF HasParts(part)
              THEN <<[part EXCEPT !.parts = WithoutFailing(part.parts)]>>
              ELSE IF DecodeFails(part) THEN <<>>
              ELSE <<part>>) \o WithoutFailing(Tail(parts))

\* the texts that decoding the leaves of the model can yield
DecodedTexts ==
    {urlsafe_b64decode_utf8(l.body.data).text : l \in LeafSet} \cup {""}

\* C11: in a multipart payload a leaf whose decoding fails contributes
\* nothing: the bodies extracted are those of the same payload without
\* the failing leaves, so the walk went on to the later siblings, and
\* both slots hold a text (possibly empty) whatever failed.
C11_DecodeFailureLocal ==
    mpc = "done" =>
        /\ email_data.body_text \in DecodedTexts
        /\ email_data.body_html \in DecodedTexts
        /\ HasParts(payload) => email_data.body_text =
              _extract_from_parts(WithoutFailing(payload.parts)).text
        /\ HasParts(payload) => email_data.body_html =
              _extract_from_parts(WithoutFailing(payload.parts)).html
        /\ \A i \in Indices(PayloadLeaves(payload)) :
              DecodeFails(PayloadLeaves(payload)[i]) =>
                  LET bad == PayloadLeaves(payload)[i]
                      later == SubSeq(PayloadLeaves(payload), i + 1,
                                      Len(PayloadLeaves(payload)))
                      earlier == SubSeq(PayloadLeaves(payload), 1, i - 1)
                  IN  /\ FirstDecoded(earlier, "text/plain") = ""
                         => email_data.body_text = FirstDecoded(later, "text/plain")
                      /\ FirstDecoded(earlier, "text/html") = ""
                         => email_data.body_html = FirstDecoded(later, "text/html")

\* a text/plain leaf that fails to decode, followed by a sibling of the
\* same type that decodes and fills the text slot
C11_Witness ==
    /\ mpc = "done"
    /\ HasParts(payload)
    /\ Len(payload.parts) >= 2
    /\ DecodeFails(payload.parts[1])
    /\ payload.parts[1].mimeType = "text/plain"
    /\ ~HasParts(payload.parts[2])
    /\ Decodable(payload.parts[2], "text/plain")
    /\ email_data.body_text = urlsafe_b64decode_utf8(payload.parts[2].body.data).text
    /\ email_data.body_text # ""

\* whether the call recorded in op attempted a file write that failed
WriteFailed(op) == op.saved \in WriteOutcomes \ {"ok"}

\* C13: a failed file write rolls nothing back. A store_email whose write
\* fails still returns the new db_id and leaves the new record last in
\* self.emails; a mark_email_processed whose write fails still returns
\* True and leaves the record processed with the analysis given; a query
\* answers from self.emails, on disk or not; and every write that succeeds
\* leaves in the file exactly what self.emails holds.
C13_FailedWriteNoRollback ==
    [][ /\ (lastOp'.op = "store_email" /\ WriteFailed(lastOp')) =>
              /\ lastOp'.ret = issued'[lastOp'.arg.id]
              /\ Len(emails') = Len(emails) + 1
              /\ SubSeq(emails', 1, Len(emails)) = emails
              /\ emails'[Len(emails')] =
                    NewRecord(lastOp'.arg.id, lastOp'.arg.subject,
                              lastOp'.ret, lastOp'.now)
              /\ get_database_stats(emails').total_emails = Len(emails) + 1
              /\ emails'[Len(emails')] \in
                    Range(get_unprocessed_emails(emails', Len(emails')))
        /\ (lastOp'.op = "mark_email_processed" /\ WriteFailed(lastOp')) =>
              /\ lastOp'.ret = TRUE
              /\ LET i == FindById(emails', lastOp'.arg.id)
                 IN  /\ i # 0
                     /\ emails'[i].processed
                     /\ emails'[i].ai_analysis = lastOp'.arg.ai_analysis
                     /\ emails'[i] \notin
                           Range(get_unprocessed_emails(emails', Len(emails')))
        /\ lastOp'.op = "get_database_stats" =>
              lastOp'.ret = get_database_stats(emails')
        /\ lastOp'.op = "get_unprocessed_emails" =>
              lastOp'.ret = get_unprocessed_emails(emails', lastOp'.arg)
        /\ lastOp'.saved = "ok" => file' = JsonFile(emails')
      ]_vars

\* a store_email whose write failed: acknowledged with its db_id, held in
\* self.emails and not in the file
C13_Witness ==
    /\ lastOp.op = "store_email"
    /\ WriteFailed(lastOp)
    /\ emails # <<>>
    /\ emails[Len(emails)].db_id = lastOp.ret
    /\ emails[Len(emails)].id = lastOp.arg.id
    /\ ~RecordInFile(emails[Len(emails)])

\* the fields of a record that no store operation writes after the insert
Identity(e) ==
    [id |-> e.id, subject |-> e.subject, db_id |-> e.db_id,
     created_at |-> e.created_at]

\* C14: the store is append/mutate-only. Over every step, each record of
\* self.emails is still there at its position afterwards, with the id,
\* db_id and created_at (and the caller's content) it had; only processed,
\* ai_analysis and processed_at differ, and the list never gets shorter.
C14_AppendMutateOnly ==
    [][ /\ Len(emails') >= Len(emails)
        /\ \A i \in Indices(emails) :
              Identity(emails'[i]) = Identity(emails[i])
      ]_vars

\* a record marked as processed at a time other than the one it was
\* created at, still carrying the db_id and created_at of its insert
C14_Witness ==
    /\ lastOp.op = "mark_email_processed"
    /\ lastOp.ret = TRUE
    /\ LET e == emails[FindById(emails, lastOp.arg.id)]
       IN  /\ e.processed_at = <<lastOp.now>>
           /\ e.created_at # lastOp.now
           /\ e.db_id = issued[e.id]
    /\ Len(emails) = 2

\* a record as one marking of a fresh insert leaves it
MarkedOnce(e, analysis, now) ==
    [NewRecord(e.id, e.subject, e.db_id, e.created_at)
        EXCEPT !.processed = TRUE,
               !.ai_analysis = analysis,
               !.processed_at = <<now>>]

\* C15: re-marking overwrites. A mark_email_processed on a record that is
\* processed already returns True and leaves the record exactly as one
\* marking of the fresh record with the latest analysis and time would:
\* processed, ai_analysis the latest analysis, processed_at the latest
\* time, nothing of the earlier call kept. With the analysis it already
\* has, processed and ai_analysis stay as they were. No step of the store
\* makes a processed record unprocessed.
C15_RemarkOverwrites ==
    [][ /\ lastOp'.op = "mark_email_processed" =>
              LET i == FindById(emails, lastOp'.arg.id)
              IN  (i # 0 /\ emails[i].processed) =>
                    /\ lastOp'.ret = TRUE
                    /\ emails'[i] = MarkedOnce(emails[i], lastOp'.arg.ai_analysis,
                                               lastOp'.now)
                    /\ emails[i].ai_analysis = lastOp'.arg.ai_analysis =>
                          /\ emails'[i].processed = emails[i].processed
                          /\ emails'[i].ai_analysis = emails[i].ai_analysis
        /\ \A i \in Indices(emails) :
              emails[i].processed => emails'[i].processed
      ]_vars

\* a record marked a second time, with another analysis: the file still
\* holds the first analysis, because the write of the second marking
\* failed to open the file, and self.emails holds the second alone
C15_Witness ==
    /\ lastOp.op = "mark_email_processed"
    /\ lastOp.ret = TRUE
    /\ lastOp.saved = "open_failed"
    /\ file.state = "json"
    /\ LET i == FindById(emails, lastOp.arg.id)
       IN  /\ i <= Len(_load_database(file))
           /\ _load_database(file)[i].id = emails[i].id
           /\ _load_database(file)[i].processed
           /\ _load_database(file)[i].ai_analysis # lastOp.arg.ai_analysis
           /\ emails[i].processed
           /\ emails[i].ai_analysis = lastOp.arg.ai_analysis
           /\ emails[i].processed_at = <<lastOp.now>>

\* C12: close and reopen is a round trip, and close is idempotent. An
\* EmailDatabase opened right after a close_connection that wrote the file
\* holds the records self.emails held, in the same order, every field
\* equal; a close_connection right after one that wrote the file leaves
\* self.emails as it is and, unless its own write breaks off, the file too.
C12_CloseReopenRoundTrip ==
    [][ lastOp.op = "close_connection" /\ lastOp.saved = "ok" =>
          /\ lastOp'.op = "__init__" => emails' = emails
          /\ lastOp'.op = "close_connection" =>
                /\ emails' = emails
                /\ lastOp'.saved # "dump_failed" => file' = file
      ]_vars

\* reopened after a close: a processed record whose subject has a
\* character that json escapes is back in self.emails
C12_Witness ==
    /\ lastOp.op = "__init__"
    /\ \E i \in Indices(emails) :
          /\ emails[i].subject = "\\u2713 ok"
          /\ DumpRecord(emails[i]).subject # Chars(emails[i].subject)
          /\ emails[i].processed
          /\ emails[i].processed_at # Absent
    /\ \E i \in Indices(emails) : ~emails[i].processed
    /\ file = JsonFile(emails)

OwnOps == {"store_email", "mark_email_processed", "close_connection"}
PeerOps == {"peer.store_email", "peer.close_connection"}

\* C16: nothing detects a second writer. Each write that succeeds leaves
\* in the file the list of the instance that wrote, whatever the file held
\* before; an instance's list changes only by its own inserts and marks
\* (and, for the second instance, when it is constructed, which is the one
\* time the file is read); so a step of one instance never brings the
\* other's records into memory.
C16_NoConflictDetection ==
    [][ /\ (lastOp'.op \in OwnOps /\ lastOp'.saved = "ok") =>
              file' = JsonFile(emails')
        /\ (lastOp'.op \in PeerOps /\ lastOp'.saved = "ok") =>
              file' = JsonFile(peer')
        /\ emails' # emails =>
              lastOp'.op \in {"store_email", "mark_email_processed"}
        /\ peer' # peer => lastOp'.op \in {"peer.store_email", "peer.__init__"}
        /\ lastOp'.op = "peer.__init__" =>
              (peer' = _load_database(file) /\ file' = file)
        /\ file' # file => lastOp'.saved \in WriteOutcomes
      ]_vars

\* a lost update: no write has ever failed, the first instance holds a
\* record it inserted and acknowledged, and after a write of the second
\* instance the file is valid JSON without that record
C16_Witness ==
    /\ failures = 0
    /\ lastOp.op \in PeerOps
    /\ lastOp.saved = "ok"
    /\ file.state = "json"
    /\ \E i \in Indices(emails) :
          /\ emails[i].id \in DOMAIN issued
          /\ issued[emails[i].id] = emails[i].db_id
          /\ \A j \in Indices(_load_database(file)) :
                /\ _load_database(file)[j].db_id # emails[i].db_id
                /\ _load_database(file)[j].id # emails[i].id

====
